---- MODULE Spec2Model ----
(***************************************************************************)
(* Double machine learning estimators: DoubleMLPLR.fit / OrthDmlPlr.fit    *)
(* (dml/dml_plr.py) and DoubleMLPLIV._ml_nuisance_and_score_elements /     *)
(* DoubleMLPLIV._check_inf_method (doubleml/double_ml_pliv.py).            *)
(*                                                                         *)
(* Numbers: the data are small integers; a quotient of two of them is kept *)
(* exactly as a pair <<n, d>> in lowest terms with d > 0.  A division by   *)
(* zero does not raise for numpy floats: it yields inf, -inf or nan, kept  *)
(* here as <<1, 0>>, <<-1, 0>> and <<0, 0>>.                               *)
(***************************************************************************)
EXTENDS Integers, Sequences, FiniteSets, TLC

\* Number of observations (rows of X, y, d, z).
NumObs == 3

Rows == 1..NumObs

\* The columns a call may be given: a binary outcome y and instrument z, and
\* a treatment d with three levels for DoubleMLPLR (with two levels only, no
\* split of so few rows has a non-zero sum of v*d in every fold) and two for
\* DoubleMLPLIV, whose score elements involve no division.
Binary == [Rows -> {0, 1}]

Treatments == [Rows -> {0, 1, 2}]

\* The feature of row i is i itself (one column, all rows distinct).
X == [i \in Rows |-> i]

(***************************************************************************)
(* Arithmetic                                                              *)
(***************************************************************************)
Abs(a) == IF a < 0 THEN -a ELSE a

Sgn(a) == IF a > 0 THEN 1 ELSE IF a < 0 THEN -1 ELSE 0

RECURSIVE Gcd(_, _)
Gcd(a, b) == IF b = 0 THEN a ELSE Gcd(b, a % b)

\* n / d as numpy computes it on floats: inf, -inf or nan when d = 0.
Div(n, d) ==
    IF d = 0 THEN <<Sgn(n), 0>>
    ELSE LET g == Gcd(Abs(n), Abs(d))
             s == Sgn(d)
         IN  <<(s * n) \div g, (s * d) \div g>>

IsFinite(q) == q[2] # 0

\* a + b on floats (inf + -inf = nan, nan absorbs).
Add(a, b) ==
    IF IsFinite(a) /\ IsFinite(b) THEN Div(a[1] * b[2] + b[1] * a[2], a[2] * b[2])
    ELSE IF IsFinite(a) THEN b
    ELSE IF IsFinite(b) THEN a
    ELSE IF a = b THEN a ELSE <<0, 0>>

\* a / k for an integer k > 0.
DivInt(a, k) == IF IsFinite(a) THEN Div(a[1], a[2] * k) ELSE a

RECURSIVE SumQ(_)
SumQ(s) == IF s = <<>> THEN <<0, 1>> ELSE Add(SumQ(Tail(s)), Head(s))

\* np.mean of a non-empty array of floats.
Mean(s) == DivInt(SumQ(s), Len(s))

\* np.dot of two 1-d arrays of the same length.
RECURSIVE Dot(_, _)
Dot(a, b) == IF a = <<>> THEN 0 ELSE Head(a) * Head(b) + Dot(Tail(a), Tail(b))

\* a - b, elementwise.
Minus(a, b) == [k \in 1..Len(a) |-> a[k] - b[k]]

\* np.multiply(a, b), elementwise.
Multiply(a, b) == [k \in 1..Len(a) |-> a[k] * b[k]]

Neg(a) == [k \in 1..Len(a) |-> -a[k]]

\* vec[index]: numpy indexing of an array by an index array.
Take(vec, index) == [k \in 1..Len(index) |-> vec[index[k]]]

Range(s) == {s[k] : k \in 1..Len(s)}

RECURSIVE Asc(_)
\* The elements of a set of rows as an ascending index array.
Asc(S) ==
    IF S = {} THEN <<>>
    ELSE LET m == CHOOSE a \in S : \A b \in S : a <= b
         IN  <<m>> \o Asc(S \ {m})

(***************************************************************************)
(* Resampling.  KFold(n_splits, shuffle=False) as the test builds it, and  *)
(* a resampling object whose train indices are all rows (its train and     *)
(* test indices overlap): fit takes any object with get_n_splits / split.  *)
(***************************************************************************)
\* Size of test fold f (0-based): the first n % k folds hold one row more.
FoldSize(f, k) == (NumObs \div k) + (IF f < NumObs % k THEN 1 ELSE 0)

RECURSIVE FoldStart(_, _)
FoldStart(f, k) == IF f = 0 THEN 0 ELSE FoldStart(f - 1, k) + FoldSize(f - 1, k)

TestRows(f, k) == (FoldStart(f, k) + 1)..(FoldStart(f, k) + FoldSize(f, k))

\* resampling.split(X): the (train_index, test_index) pairs, in order.
Split(rs) ==
    [f \in 1..rs.n_splits |->
        LET test == TestRows(f - 1, rs.n_splits)
        IN  [train |-> IF rs.cv = "KFold" THEN Asc(Rows \ test) ELSE Asc(Rows),
             test  |-> Asc(test)]]

Resamplings ==
    [cv : {"KFold"}, n_splits : 2..NumObs] \cup [cv : {"InSample"}, n_splits : {2}]

(***************************************************************************)
(* Learners: objects with fit(X, y) -> self and predict(X).                *)
(*   "knn1": the target of the nearest training row (the lower row on a    *)
(*           tie); it reproduces the label of a row it was trained on.     *)
(*   "max" : the largest training target, for every row.                   *)
(***************************************************************************)
LearnerKinds == {"knn1", "max"}

Unfitted == [fitted |-> FALSE, X |-> <<>>, y |-> <<>>]

\* learner.fit(Xtr, ytr): the fitted state the object holds afterwards.
LearnerFit(Xtr, ytr) == [fitted |-> TRUE, X |-> Xtr, y |-> ytr]

MaxOf(s) == CHOOSE a \in Range(s) : \A b \in Range(s) : b <= a

Nearest(st, x) ==
    CHOOSE k \in 1..Len(st.X) :
        \A j \in 1..Len(st.X) :
            \/ Abs(st.X[k] - x) < Abs(st.X[j] - x)
            \/ Abs(st.X[k] - x) = Abs(st.X[j] - x) /\ k <= j

\* learner.predict(Xte) of a fitted learner.
LearnerPredict(kind, st, Xte) ==
    [k \in 1..Len(Xte) |->
        IF kind = "knn1" THEN st.y[Nearest(st, Xte[k])] ELSE MaxOf(st.y)]

(***************************************************************************)
(* Configuration values                                                    *)
(***************************************************************************)
Str(name) == [type |-> "str", name |-> name]

\* A custom score: a callable taking (y, z, d, g_hat, m_hat, r_hat, smpls).
Callable(name) == [type |-> "callable", name |-> name]

\* A value that is neither a string nor callable.
NoneValue == [type |-> "other", name |-> "None"]

InfModels == {Str("IV-type"), Str("DML2018"), Str("bogus"), Callable("score_iv"), NoneValue}

DmlProcedures == {"dml1", "dml2", "bogus"}

isinstance_str(v) == v.type = "str"

callable(v) == v.type = "callable"

(***************************************************************************)
(* Exceptions                                                              *)
(***************************************************************************)
NoExc == [type |-> "", msg |-> ""]

Exc(type, msg) == [type |-> type, msg |-> msg]

\* An error raised by a learner's fit: learners are supplied by the caller
\* and may fail on any call.
LearnerError == Exc("LearnerError", "fit failed")

(***************************************************************************)
(* State                                                                   *)
(***************************************************************************)
VARIABLES
    model,          \* the class of self: "PLR" (DoubleMLPLR) or "PLIV" (DoubleMLPLIV)
    dml_procedure,  \* self.dml_procedure
    inf_model,      \* self.inf_model
    resampling,     \* self.resampling (PLR); the object that drew smpls (PLIV)
    ml_kind,        \* the kind of each learner object of self.ml_learners
    ml_state,       \* the fitted state of each learner object of self.ml_learners
    y, d, z,        \* the data of the call (<<>> before the first call that reads them)
    coef_,          \* self.coef_ of the DoubleMLPLR object: <<>> (no attribute) or <<theta>>
    pc,             \* "idle", "loop" (inside fit's for loop), "returned", "raised"
    exc,            \* the exception the last call raised
    idx,            \* the loop index of fit
    thetas,         \* the local array thetas of fit
    g_hat, m_hat, r_hat,  \* the nuisance predictions of the last fold (PLR) or call (PLIV)
    score,          \* what _ml_nuisance_and_score_elements returned: <<>> or <<score_a, score_b>>
    fit_log,        \* the learner fits of the current call: <<learner, fold>>, in order
    coef_before     \* coef_ when the current call of fit was entered

vars == <<model, dml_procedure, inf_model, resampling, ml_kind, ml_state, y, d, z,
          coef_, pc, exc, idx, thetas, g_hat, m_hat, r_hat, score, fit_log,
          coef_before>>

config == <<model, dml_procedure, inf_model, resampling, ml_kind>>

LearnerNames == {"ml_g", "ml_m", "ml_r"}

\* The caller holds one data set: the first call that reads a column fixes
\* it, and a later call of the same object passes the same column.
DataOf(column, Columns) == IF column = <<>> THEN Columns ELSE {column}

\* The ml_learners dictionaries a DoubleMLPLR object is built with here.
PlrLearners == {k \in [{"ml_g", "ml_m"} -> LearnerKinds] : k["ml_g"] # k["ml_m"]}

\* DoubleMLPLR.__init__ (and DoubleMLPLIV.__init__): the attributes are the
\* arguments as given, nothing is checked and nothing is fitted.
Init ==
    /\ model = "PLR"
    /\ dml_procedure \in DmlProcedures
    /\ inf_model \in InfModels
    /\ resampling \in Resamplings
    /\ ml_kind \in PlrLearners
    /\ ml_state = [n \in {"ml_g", "ml_m"} |-> Unfitted]
    /\ y = <<>> /\ d = <<>> /\ z = <<>>
    /\ coef_ = <<>>
    /\ pc = "idle"
    /\ exc = NoExc
    /\ idx = 0
    /\ thetas = <<>>
    /\ g_hat = <<>> /\ m_hat = <<>> /\ r_hat = <<>>
    /\ score = <<>>
    /\ fit_log = <<>>
    /\ coef_before = <<>>

(***************************************************************************)
(* OrthDmlPlr.fit(y, d, g_hat, m_hat)                                      *)
(***************************************************************************)
\* OrthDmlPlr.fit with the 'IV-type' denominator taken as v.v instead of v.d.
OrthDmlPlrFit_DenominatorVV(inf, yt, dt, gh, mh) ==
    LET u_hat == Minus(yt, gh)
        v_hat == Minus(dt, mh)
    IN  IF inf = Str("IV-type")
        THEN [exc |-> NoExc, coef_ |-> Div(Dot(v_hat, u_hat), Dot(v_hat, v_hat))]
        ELSE IF inf = Str("DML2018")
        THEN [exc |-> Exc("NameError", "name 'LinearRegression' is not defined"),
              coef_ |-> <<0, 0>>]
        ELSE [exc |-> Exc("ValueError", "invalid inf_model"), coef_ |-> <<0, 0>>]

OrthDmlPlrFit(inf, yt, dt, gh, mh) ==
    LET u_hat  == Minus(yt, gh)
        v_hat  == Minus(dt, mh)
        v_hatd == Dot(v_hat, dt)
    IN  IF inf = Str("IV-type")
        THEN \* np.mean of a scalar is the scalar
             [exc |-> NoExc, coef_ |-> Div(Dot(v_hat, u_hat), v_hatd)]
        ELSE IF inf = Str("DML2018")
        THEN \* LinearRegression is not imported by the module
             [exc |-> Exc("NameError", "name 'LinearRegression' is not defined"),
              coef_ |-> <<0, 0>>]
        ELSE [exc |-> Exc("ValueError", "invalid inf_model"), coef_ |-> <<0, 0>>]

(***************************************************************************)
(* DoubleMLPLR.fit(X, y, d)                                                *)
(***************************************************************************)
\* The learner fit on all rows instead of the train rows.
NuisanceFit_AllRows(target, train_index) ==
    LearnerFit(Take(X, Asc(Rows)), Take(target, Asc(Rows)))

\* learner.fit(X[train_index], target[train_index])
NuisanceFit(target, train_index) ==
    LearnerFit(Take(X, train_index), Take(target, train_index))

\* np.zeros(n)
Zeros(n) == [k \in 1..n |-> <<0, 1>>]

\* Entry of fit up to the for loop: the attributes are read, OrthDmlPlr is
\* constructed (it only stores inf_model), check_X_y passes the data through,
\* and dml_procedure is compared.  fit is called on a new object or on one
\* whose last fit returned; an object whose fit raised is not used again.
FitEnter(yy, dd) ==
    /\ model = "PLR"
    /\ pc \in {"idle", "returned"}
    /\ fit_log' = <<>>
    /\ coef_before' = coef_
    /\ IF dml_procedure = "dml1"
       THEN /\ pc' = "loop"
            /\ exc' = NoExc
            /\ thetas' = Zeros(resampling.n_splits)
            /\ y' = yy /\ d' = dd
       ELSE /\ pc' = "raised"
            /\ exc' = Exc("ValueError", "invalid dml_procedure")
            /\ thetas' = <<>>
            /\ UNCHANGED <<y, d>>
    /\ idx' = 0
    /\ g_hat' = <<>> /\ m_hat' = <<>>
    /\ UNCHANGED <<config, ml_state, z, coef_, r_hat, score>>

\* The loop body storing the mean of the folds so far as self.coef_.
PlrFold_StoresRunningMean(raises) ==
    LET s    == Split(resampling)[idx + 1]
        gfit == NuisanceFit(y, s.train)
        g    == LearnerPredict(ml_kind["ml_g"], gfit, Take(X, s.test))
        mfit == NuisanceFit(d, s.train)
        m    == LearnerPredict(ml_kind["ml_m"], mfit, Take(X, s.test))
        res  == OrthDmlPlrFit(inf_model, Take(y, s.test), Take(d, s.test), g, m)
        glog == Append(fit_log, <<"ml_g", idx>>)
        mlog == Append(glog, <<"ml_m", idx>>)
        gml  == [ml_state EXCEPT !["ml_g"] = gfit]
        mml  == [gml EXCEPT !["ml_m"] = mfit]
        ths  == [thetas EXCEPT ![idx + 1] = res.coef_]
        fail(e, ml, log) ==
            [exc |-> e, ml |-> ml, log |-> log, thetas |-> <<>>, idx |-> 0,
             g_hat |-> <<>>, m_hat |-> <<>>, coef_ |-> coef_]
    IN  IF raises = "ml_g" THEN fail(LearnerError, ml_state, glog)
        ELSE IF raises = "ml_m" THEN fail(LearnerError, gml, mlog)
        ELSE IF res.exc # NoExc THEN fail(res.exc, mml, mlog)
        ELSE [exc |-> NoExc, ml |-> mml, log |-> mlog,
              thetas |-> ths, idx |-> idx + 1,
              g_hat |-> g, m_hat |-> m, coef_ |-> <<Mean(SubSeq(ths, 1, idx + 1))>>]

\* One pass of the loop body, for the pair the resampling yields at idx;
\* raises names the learner whose fit fails in this pass ("none": neither).
PlrFold(raises) ==
    LET s    == Split(resampling)[idx + 1]
        gfit == NuisanceFit(y, s.train)
        g    == LearnerPredict(ml_kind["ml_g"], gfit, Take(X, s.test))
        mfit == NuisanceFit(d, s.train)
        m    == LearnerPredict(ml_kind["ml_m"], mfit, Take(X, s.test))
        res  == OrthDmlPlrFit(inf_model, Take(y, s.test), Take(d, s.test), g, m)
        glog == Append(fit_log, <<"ml_g", idx>>)
        mlog == Append(glog, <<"ml_m", idx>>)
        gml  == [ml_state EXCEPT !["ml_g"] = gfit]
        mml  == [gml EXCEPT !["ml_m"] = mfit]
        fail(e, ml, log) ==
            [exc |-> e, ml |-> ml, log |-> log, thetas |-> <<>>, idx |-> 0,
             g_hat |-> <<>>, m_hat |-> <<>>, coef_ |-> coef_]
    IN  IF raises = "ml_g" THEN fail(LearnerError, ml_state, glog)
        ELSE IF raises = "ml_m" THEN fail(LearnerError, gml, mlog)
        ELSE IF res.exc # NoExc THEN fail(res.exc, mml, mlog)
        ELSE [exc |-> NoExc, ml |-> mml, log |-> mlog,
              thetas |-> [thetas EXCEPT ![idx + 1] = res.coef_], idx |-> idx + 1,
              g_hat |-> g, m_hat |-> m, coef_ |-> coef_]

FitFold(raises) ==
    /\ pc = "loop"
    /\ idx < resampling.n_splits
    /\ LET r == PlrFold(raises)
       IN  /\ ml_state' = r.ml
           /\ fit_log' = r.log
           /\ exc' = r.exc
           /\ pc' = IF r.exc = NoExc THEN "loop" ELSE "raised"
           /\ thetas' = r.thetas
           /\ idx' = r.idx
           /\ g_hat' = r.g_hat /\ m_hat' = r.m_hat
           /\ coef_' = r.coef_
    /\ UNCHANGED <<config, y, d, z, r_hat, score, coef_before>>

\* theta_hat = np.mean(thetas)
ThetaHat(ths) == Mean(ths)

\* After the loop: the mean of thetas is stored as self.coef_; fit returns self.
FitReturn ==
    /\ pc = "loop"
    /\ idx = resampling.n_splits
    /\ coef_' = <<ThetaHat(thetas)>>
    /\ pc' = "returned"
    /\ thetas' = <<>>
    /\ idx' = 0
    /\ g_hat' = <<>> /\ m_hat' = <<>>
    /\ UNCHANGED <<config, ml_state, y, d, z, exc, r_hat, score, fit_log, coef_before>>

Next ==
    \/ \E yy \in DataOf(y, Binary), dd \in DataOf(d, Treatments) : FitEnter(yy, dd)
    \/ \E raises \in {"none", "ml_g", "ml_m"} : FitFold(raises)
    \/ FitReturn

Spec == Init /\ [][Next]_vars

(***************************************************************************)
(* DoubleMLPLIV                                                            *)
(***************************************************************************)
\* The ml_learners dictionaries a DoubleMLPLIV object is built with here.
PlivLearners ==
    {[n \in LearnerNames |-> "knn1"],
     [n \in LearnerNames |-> "max"],
     [ml_g |-> "knn1", ml_m |-> "max", ml_r |-> "knn1"]}

\* DoubleMLPLIV.__init__ as far as the file shows it: the arguments go to the
\* base class, the nuisance parameters start as None.
InitPLIV ==
    /\ model = "PLIV"
    /\ dml_procedure = "dml1"
    /\ inf_model \in InfModels
    /\ resampling \in [cv : {"KFold"}, n_splits : 2..NumObs]
    /\ ml_kind \in PlivLearners
    /\ ml_state = [n \in LearnerNames |-> Unfitted]
    /\ y = <<>> /\ d = <<>> /\ z = <<>>
    /\ coef_ = <<>>
    /\ pc = "idle"
    /\ exc = NoExc
    /\ idx = 0
    /\ thetas = <<>>
    /\ g_hat = <<>> /\ m_hat = <<>> /\ r_hat = <<>>
    /\ score = <<>>
    /\ fit_log = <<>>
    /\ coef_before = <<>>

\* DoubleMLPLIV._check_inf_method(inf_model): the exception it raises, if any.
\* For a string that is not valid the message is built as str + list, which
\* is a TypeError before the ValueError can be constructed.
CheckInfMethod(inf) ==
    IF isinstance_str(inf)
    THEN IF inf.name \notin {"DML2018"}
         THEN Exc("TypeError", "can only concatenate str (not list) to str")
         ELSE NoExc
    ELSE IF ~callable(inf)
         THEN Exc("ValueError", "inf_model should be either a string or a callable")
         ELSE NoExc

\* The custom score a caller may pass as inf_model: it is called with
\* (y, z, d, g_hat, m_hat, r_hat, smpls).  "score_iv" returns an IV-type score.
CallInfModel(inf, yv, zv, dv, gh, mh, rh, smpls) ==
    <<Neg(Multiply(Minus(zv, mh), dv)), Multiply(Minus(zv, mh), Minus(yv, gh))>>

\* The score elements with v_hat built from the treatment d instead of the
\* instrument z.
ScoreElements_VFromTreatment(inf, yv, zv, dv, gh, mh, rh, smpls) ==
    LET u_hat == Minus(yv, gh)
        v_hat == Minus(dv, mh)
        w_hat == Minus(dv, rh)
    IN  IF isinstance_str(inf)
        THEN <<Neg(Multiply(w_hat, v_hat)), Multiply(v_hat, u_hat)>>
        ELSE CallInfModel(inf, yv, zv, dv, gh, mh, rh, smpls)

\* The residuals and score elements of _ml_nuisance_and_score_elements, for
\* an inf_model that passed _check_inf_method.
ScoreElements(inf, yv, zv, dv, gh, mh, rh, smpls) ==
    LET u_hat == Minus(yv, gh)
        v_hat == Minus(zv, mh)
        w_hat == Minus(dv, rh)
    IN  IF isinstance_str(inf)
        THEN <<Neg(Multiply(w_hat, v_hat)), Multiply(v_hat, u_hat)>>
        ELSE CallInfModel(inf, yv, zv, dv, gh, mh, rh, smpls)

RECURSIVE CrossValFill(_, _, _, _, _)
\* The folds f.. of _dml_cross_val_predict: a fresh copy of the learner is
\* fit on the train rows and its predictions are written at the test rows.
CrossValFill(out, kind, target, smpls, f) ==
    IF f > Len(smpls) THEN out
    ELSE LET s    == smpls[f]
             pred == LearnerPredict(kind, NuisanceFit(target, s.train), Take(X, s.test))
             pos(i) == CHOOSE k \in 1..Len(s.test) : s.test[k] = i
         IN  CrossValFill([i \in Rows |-> IF i \in Range(s.test) THEN pred[pos(i)] ELSE out[i]],
                          kind, target, smpls, f + 1)

\* _dml_cross_val_predict(ml, X, target, smpls): the length-N vector of
\* out-of-fold predictions.
DmlCrossValPredict(kind, target, smpls) ==
    CrossValFill([i \in Rows |-> 0], kind, target, smpls, 1)

\* The fits of the fresh copies made by one call of _dml_cross_val_predict.
CrossValLog(name, smpls) == [f \in 1..Len(smpls) |-> <<name, f - 1>>]

\* DoubleMLPLIV._ml_nuisance_and_score_elements(obj_dml_data, smpls, n_jobs_cv)
NuisanceAndScoreElements(yy, dd, zz) ==
    /\ model = "PLIV"
    /\ pc \in {"idle", "returned", "raised"}
    /\ LET smpls == Split(resampling)
           g == DmlCrossValPredict(ml_kind["ml_g"], yy, smpls)
           m == DmlCrossValPredict(ml_kind["ml_m"], zz, smpls)
           r == DmlCrossValPredict(ml_kind["ml_r"], dd, smpls)
           e == CheckInfMethod(inf_model)
       IN  /\ fit_log' = CrossValLog("ml_g", smpls) \o CrossValLog("ml_m", smpls)
                            \o CrossValLog("ml_r", smpls)
           /\ exc' = e
           /\ IF e = NoExc
              THEN /\ pc' = "returned"
                   /\ score' = ScoreElements(inf_model, yy, zz, dd, g, m, r, smpls)
                   /\ g_hat' = g /\ m_hat' = m /\ r_hat' = r
                   /\ y' = yy /\ d' = dd /\ z' = zz
              ELSE /\ pc' = "raised"
                   /\ score' = <<>>
                   /\ g_hat' = <<>> /\ m_hat' = <<>> /\ r_hat' = <<>>
                   /\ UNCHANGED <<y, d, z>>
    /\ UNCHANGED <<config, ml_state, coef_, idx, thetas, coef_before>>

NextPLIV ==
    \E yy \in DataOf(y, Binary), dd \in DataOf(d, Binary), zz \in DataOf(z, Binary) :
        NuisanceAndScoreElements(yy, dd, zz)

SpecPLIV == InitPLIV /\ [][NextPLIV]_vars

(***************************************************************************)
(* The manual reference of tests/test_plr.py                               *)
(***************************************************************************)
\* dml_cross_fitting(Y, X, D, ml_m, ml_g, resampling)
dml_cross_fitting(Y, D, kind_m, kind_g, rs) ==
    LET fold(s) ==
            LET ghat == LearnerPredict(kind_g, LearnerFit(Take(X, s.train), Take(Y, s.train)),
                                       Take(X, s.test))
                mhat == LearnerPredict(kind_m, LearnerFit(Take(X, s.train), Take(D, s.train)),
                                       Take(X, s.test))
                vhat == Minus(Take(D, s.test), mhat)
            IN  Div(Dot(vhat, Minus(Take(Y, s.test), ghat)), Dot(vhat, Take(D, s.test)))
    IN  Mean([f \in 1..rs.n_splits |-> fold(Split(rs)[f])])

(***************************************************************************)
(* Properties                                                              *)
(***************************************************************************)
RECURSIVE SumOver(_, _)
\* The sum of f[i] over the rows i of S.
SumOver(S, f) ==
    IF S = {} THEN 0
    ELSE LET i == CHOOSE j \in S : TRUE IN f[i] + SumOver(S \ {i}, f)

\* The prediction for row i of a learner of this kind fit on the rows train
\* of (X, target).
PredictionAt(kind, target, train, i) ==
    LearnerPredict(kind, LearnerFit(Take(X, train), Take(target, train)), <<X[i]>>)[1]

\* The fold's u = y - g_hat and v = d - m_hat, by row of its test set.
ResidualU(s) == [i \in Range(s.test) |-> y[i] - PredictionAt(ml_kind["ml_g"], y, s.train, i)]

ResidualV(s) == [i \in Range(s.test) |-> d[i] - PredictionAt(ml_kind["ml_m"], d, s.train, i)]

\* theta_fold = sum_{i in test} v_i u_i / sum_{i in test} v_i d_i
IvTypeFoldTheta(s) ==
    LET u == ResidualU(s)
        v == ResidualV(s)
    IN  Div(SumOver(Range(s.test), [i \in Range(s.test) |-> v[i] * u[i]]),
            SumOver(Range(s.test), [i \in Range(s.test) |-> v[i] * d[i]]))

\* The unweighted mean of theta_fold over the K folds.
MeanOfFoldThetas ==
    LET smpls == Split(resampling)
    IN  DivInt(SumQ([f \in 1..Len(smpls) |-> IvTypeFoldTheta(smpls[f])]), Len(smpls))

PlrReturned(proc, inf) ==
    model = "PLR" /\ pc = "returned" /\ dml_procedure = proc /\ inf_model = inf

\* C1: after fit with 'dml1' and 'IV-type' has returned, coef_ is the
\* unweighted mean over the folds of sum(v*u)/sum(v*d) on the fold's test
\* rows, with g_hat and m_hat predicted by learners fit on the fold's train
\* rows; it is the value of the test's dml_cross_fitting on the same input.
C1_CoefIsMeanOfFoldThetas ==
    PlrReturned("dml1", Str("IV-type")) =>
        /\ coef_ = <<MeanOfFoldThetas>>
        /\ coef_ = <<dml_cross_fitting(y, d, ml_kind["ml_m"], ml_kind["ml_g"], resampling)>>

\* A fit that returned a finite, fractional coef_ from folds of unequal size
\* whose theta_fold differ.
C1_Witness ==
    /\ PlrReturned("dml1", Str("IV-type"))
    /\ resampling = [cv |-> "KFold", n_splits |-> 2]
    /\ IsFinite(coef_[1]) /\ coef_[1][2] > 1
    /\ IvTypeFoldTheta(Split(resampling)[1]) # IvTypeFoldTheta(Split(resampling)[2])
    /\ Len(Split(resampling)[1].test) # Len(Split(resampling)[2].test)

\* The out-of-fold predictions of a learner of this kind for a target: row i
\* is predicted by the learner fit on the train rows of the fold whose test
\* rows hold i.
OutOfFold(kind, target, smpls) ==
    [i \in Rows |->
        LET f == CHOOSE g \in 1..Len(smpls) : i \in Range(smpls[g].test)
        IN  PredictionAt(kind, target, smpls[f].train, i)]

\* theta = -mean(score_b) / mean(score_a) pooled over all rows, for the
\* IV-type score_a = -v*d, score_b = v*u.
PooledTheta ==
    LET smpls == Split(resampling)
        G == OutOfFold(ml_kind["ml_g"], y, smpls)
        M == OutOfFold(ml_kind["ml_m"], d, smpls)
    IN  Div(SumOver(Rows, [i \in Rows |-> (d[i] - M[i]) * (y[i] - G[i])]),
            SumOver(Rows, [i \in Rows |-> (d[i] - M[i]) * d[i]]))

\* C2: with dml_procedure 'dml2' fit does not reject the procedure, and when
\* it has returned coef_ is the pooled solution -mean(score_b)/mean(score_a).
C2_Dml2PoolsAndSolvesOnce ==
    (model = "PLR" /\ dml_procedure = "dml2") =>
        /\ ~(pc = "raised" /\ exc = Exc("ValueError", "invalid dml_procedure"))
        /\ pc = "returned" => coef_ = <<PooledTheta>>

Disjoint(s) == Range(s.train) \cap Range(s.test) = {}

\* The fold whose pass of the loop body has just completed.
LastFold == Split(resampling)[idx]

FoldDone == model = "PLR" /\ pc = "loop" /\ idx >= 1

\* C3: after a pass of fit's loop body, ml_g holds a fit on exactly the train
\* rows of (X, y) and ml_m on exactly the train rows of (X, d), g_hat and
\* m_hat are their predictions for exactly the test rows, and when train and
\* test are disjoint no test row is among the rows a learner was fit on and
\* its prediction is the same whatever the label of that row is.
C3_OutOfFoldPredictions ==
    FoldDone =>
        LET s == LastFold
        IN  /\ ml_state["ml_g"] = [fitted |-> TRUE, X |-> Take(X, s.train), y |-> Take(y, s.train)]
            /\ ml_state["ml_m"] = [fitted |-> TRUE, X |-> Take(X, s.train), y |-> Take(d, s.train)]
            /\ g_hat = LearnerPredict(ml_kind["ml_g"], ml_state["ml_g"], Take(X, s.test))
            /\ m_hat = LearnerPredict(ml_kind["ml_m"], ml_state["ml_m"], Take(X, s.test))
            /\ Disjoint(s) =>
                 \A k \in 1..Len(s.test) :
                    /\ X[s.test[k]] \notin Range(ml_state["ml_g"].X)
                    /\ X[s.test[k]] \notin Range(ml_state["ml_m"].X)
                    /\ \A a \in {0, 1, 2} :
                          /\ LearnerPredict(ml_kind["ml_g"],
                                            NuisanceFit([y EXCEPT ![s.test[k]] = a], s.train),
                                            Take(X, s.test))[k] = g_hat[k]
                          /\ LearnerPredict(ml_kind["ml_m"],
                                            NuisanceFit([d EXCEPT ![s.test[k]] = a], s.train),
                                            Take(X, s.test))[k] = m_hat[k]

\* A completed pass over a disjoint split in which the label-reproducing
\* learner predicts, for some test row, a value other than the row's label.
C3_Witness ==
    /\ FoldDone
    /\ Disjoint(LastFold)
    /\ ml_kind["ml_g"] = "knn1"
    /\ \E k \in 1..Len(LastFold.test) : g_hat[k] = 1 /\ y[LastFold.test[k]] = 0

\* C4: no learner object is fit in more than one fold of a call, and the
\* learner objects of ml_learners are never changed by fit.
C4_PrivateLearnerCopies ==
    model = "PLR" =>
        /\ \A n \in DOMAIN ml_state : ml_state[n] = Unfitted
        /\ \A n \in DOMAIN ml_state :
              Cardinality({k \in 1..Len(fit_log) : fit_log[k][1] = n}) <= 1

\* An inf_model DoubleMLPLR has no score for, other than a callable.
UnsupportedInfModel(inf) ==
    \/ isinstance_str(inf) /\ inf.name \notin {"IV-type", "DML2018"}
    \/ ~isinstance_str(inf) /\ ~callable(inf)

\* C5: when fit raises the error for an unsupported inf_model, no learner fit
\* has been invoked in that call.
C5_FailsBeforeAnyFit ==
    (/\ model = "PLR"
     /\ UnsupportedInfModel(inf_model)
     /\ pc = "raised"
     /\ exc = Exc("ValueError", "invalid inf_model")) => fit_log = <<>>

\* C6: no theta that fit stores, per fold or as coef_, is inf or nan.
C6_NoInfOrNanTheta ==
    model = "PLR" =>
        /\ \A k \in 1..Len(thetas) : IsFinite(thetas[k])
        /\ coef_ # <<>> => IsFinite(coef_[1])

\* theta_fold = sum(v*u) / sum(v*v): the OLS coefficient of u on v.
OlsFoldTheta(s) ==
    LET u == ResidualU(s)
        v == ResidualV(s)
    IN  Div(SumOver(Range(s.test), [i \in Range(s.test) |-> v[i] * u[i]]),
            SumOver(Range(s.test), [i \in Range(s.test) |-> v[i] * v[i]]))

\* C7: with inf_model 'DML2018' the score step of a fold does not fail, and
\* the fold's theta is sum(v*u)/sum(v*v).
C7_Dml2018IsOlsOfUOnV ==
    (model = "PLR" /\ dml_procedure = "dml1" /\ inf_model = Str("DML2018")) =>
        /\ pc = "raised" => exc = LearnerError
        /\ FoldDone => thetas[idx] = OlsFoldTheta(LastFold)

\* The scheme names each class has a score for.
ValidInfModels == IF model = "PLR" THEN {"IV-type", "DML2018"} ELSE {"DML2018"}

\* C8: a call that fails for an unrecognized scheme name fails with ValueError.
C8_UnrecognizedNameIsValueError ==
    (/\ pc = "raised"
     /\ isinstance_str(inf_model)
     /\ inf_model.name \notin ValidInfModels
     /\ exc # LearnerError) => exc.type = "ValueError"

\* C9: while fit runs and after it raised, coef_ is what it was when the call
\* was entered (absent on an object never fit); after it returned, coef_ is set.
C9_NoPartialTheta ==
    model = "PLR" =>
        /\ pc = "idle" => coef_ = <<>>
        /\ pc \in {"loop", "raised"} => coef_ = coef_before
        /\ pc = "returned" => Len(coef_) = 1

\* A refit of a fitted object that raised in its second fold and left the
\* earlier coef_ in place.
C9_Witness ==
    /\ model = "PLR"
    /\ pc = "raised"
    /\ exc = LearnerError
    /\ Len(fit_log) >= 3
    /\ coef_ # <<>>

\* C10: what _ml_nuisance_and_score_elements returns: for 'DML2018',
\* score_a = -(w*v) and score_b = v*u with u = y - g_hat, v = z - m_hat,
\* w = d - r_hat, the predictions being out-of-fold for the targets y (ml_g),
\* z (ml_m) and d (ml_r); for a callable, what the callable returns for
\* (y, z, d, g_hat, m_hat, r_hat, smpls).
C10_PlivScoreElements ==
    (model = "PLIV" /\ pc = "returned") =>
        LET smpls == Split(resampling)
            G == OutOfFold(ml_kind["ml_g"], y, smpls)
            M == OutOfFold(ml_kind["ml_m"], z, smpls)
            R == OutOfFold(ml_kind["ml_r"], d, smpls)
        IN  IF inf_model = Str("DML2018")
            THEN score = <<[i \in Rows |-> -((d[i] - R[i]) * (z[i] - M[i]))],
                           [i \in Rows |-> (z[i] - M[i]) * (y[i] - G[i])]>>
            ELSE /\ callable(inf_model)
                 /\ score = CallInfModel(inf_model, y, z, d, G, M, R, smpls)

\* A 'DML2018' call whose two score vectors are non-zero and whose instrument
\* and treatment residuals differ.
C10_Witness ==
    /\ model = "PLIV" /\ pc = "returned"
    /\ inf_model = Str("DML2018")
    /\ \E i \in Rows : score[1][i] # 0
    /\ \E i \in Rows : score[2][i] # 0
    /\ Minus(z, m_hat) # Minus(d, r_hat)
====
